---------------------------- MODULE Spec2Model ----------------------------
(***************************************************************************)
(* BirdEyeTrendingOrchestrator                                             *)
(* (src/job_orchestrator/src/birdeye_trending_orchestrator.rs).            *)
(*                                                                         *)
(* The orchestrator's shared state is the mutex-guarded flag is_running.   *)
(* Every block of the source that locks the flag reads or writes it and    *)
(* drops the guard before the next await, so each such block is one atomic *)
(* step.  Every await of a collaborator (BirdEye, DexScreener, Redis) and  *)
(* every timer tick is a step of its own: the collaborator's answer is     *)
(* drawn when the step is taken.  Code between two such points touches     *)
(* only locals and belongs to the step that precedes it.  The guard of     *)
(* redis_client is held across the queue call it protects: taking it and   *)
(* the queue's answer are two steps, and who holds it follows from the     *)
(* positions of the tasks.  Callers are tasks: a task is idle or is inside *)
(* start(), a direct execute_discovery_cycle() or get_discovery_stats().   *)
(***************************************************************************)
EXTENDS Integers, Sequences, FiniteSets, TLC

\* ------------------------------------------------------------- bounds
\* Longest enabled_chains list of a configuration.
MaxChains == 2
\* Longest token list a source returns (a boosted list may hold one more
\* token of an enabled chain, so that max_boosted_tokens cuts it).
MaxTokens == 2
\* Longest list of records handed to a function called on its own.
MaxRecords == 3
\* Longest list of transactions handed to from_birdeye_transactions.
MaxSwaps == 2

\* ------------------------------------------------- program constants
\* Duration::from_secs(60): the inter-cycle sleep of start().
CycleSleepMs == 60000
\* Duration::from_millis(500): the poll tick of the inter-cycle sleep.
SleepPollMs == 500
\* Duration::from_millis(500): the pacing delay between two tokens.
PaceDelayMs == 500
\* Duration::from_millis(100): the poll tick of the pacing delay.
PaceCheckMs == 100

\* --------------------------------------------------------------- tasks
Procs == {"main", "aux"}

ChainNames == <<"solana", "base", "bsc", "ethereum">>
\* A chain id a boosted token may carry that no configuration enables.
ForeignChain == "tron"

VARIABLES
    is_running,   \* Arc<Mutex<bool>>
    config,       \* SystemConfig (immutable after new) and the Redis option
    task,         \* per task: position and the locals of the calls it is in
    hist,         \* per task: history of the current / last call (ghost)
    feed,         \* the longest list a source returns in this run
    last_op,      \* the entry point invoked by the last step, if any (ghost)
    io            \* a call of one function on its own: arguments and result

vars == <<is_running, config, feed, task, hist, last_op, io>>

\* ------------------------------------------------------------- results
Ok(n) == [tag |-> "Ok", val |-> n]
Err == [tag |-> "Err", val |-> 0]

Min(a, b) == IF a < b THEN a ELSE b

\* -------------------------------------------------------- configuration
\* The configurations with n enabled chains: DexScreener on or off, new
\* listings on or off, a Redis client or none, trending tokens unlimited (0)
\* or limited to one.
Configs(n) ==
    { [ enabled_chains |-> SubSeq(ChainNames, 1, n),
        default_chain |-> ChainNames[1],
        dexscreener |-> d,
        new_listing_enabled |-> l,
        redis |-> r,
        max_trending_tokens |-> m,
        max_boosted_tokens |-> MaxTokens,
        max_traders_per_token |-> 1 ] :
      d \in BOOLEAN, l \in BOOLEAN, r \in BOOLEAN, m \in {0, 1} }

\* Everything enabled, nothing limited.
FullConfig(c) ==
    c.dexscreener /\ c.new_listing_enabled /\ c.redis /\ c.max_trending_tokens = 0

\* The number of options in which a configuration departs from the full one.
Departures(c) ==
    (IF c.dexscreener THEN 0 ELSE 1) + (IF c.new_listing_enabled THEN 0 ELSE 1)
    + (IF c.redis THEN 0 ELSE 1) + (IF c.max_trending_tokens = 0 THEN 0 ELSE 1)

\* The runs explored.  One chain, sources that return lists of up to
\* MaxTokens tokens: the full configuration and those that depart from it in
\* one option.  Several chains, sources that return at most one token: the
\* full configuration without DexScreener.  One chain whose default_chain is
\* another chain (nothing in the orchestrator relates default_chain to
\* enabled_chains), sources that return at most one token: the full
\* configuration.
Scenarios ==
    {[config |-> c, feed |-> MaxTokens] :
        c \in {d \in Configs(1) : Departures(d) <= 1}}
    \cup {[config |-> c, feed |-> 1] :
            c \in {d \in UNION {Configs(n) : n \in 2..MaxChains} :
                      ~d.dexscreener /\ Departures(d) = 1}}
    \cup {[config |-> [c EXCEPT !.default_chain = ChainNames[2]], feed |-> 1] :
            c \in {d \in Configs(1) : FullConfig(d)}}

\* No function is called on its own.
NoCall == [fn |-> "none", arg |-> <<>>, done |-> FALSE, out |-> <<>>]

\* ------------------------------------------------------- task records
IdleTask ==
    [ pc |-> "idle",          \* position
      call |-> "none",        \* the entry point the task is inside
      chain_i |-> 0,          \* index of the chain in enabled_chains
      total |-> 0,            \* execute_discovery_cycle: total_discovered_wallets
      chain_total |-> 0,      \* ..._for_chain: total_discovered_wallets
      sub_total |-> 0,        \* process_*_tokens: total_discovered_wallets
      tokens |-> <<>>,        \* the token list of the loop in progress
      i |-> 0,                \* index of the token in progress (1-based)
      source |-> "none",      \* process_boosted_tokens: "latest" or "top"
      batch |-> 0,            \* number of records about to be published
      top_tokens |-> <<>>,    \* the "top" boosted list, while "latest" runs
      queue_size |-> 0,       \* get_discovery_stats: queue_size
      ms |-> 0 ]              \* elapsed time of the sleep in progress

\* What the last step of a task met (ghost): a failed fetch, a publish, a
\* stop seen at a flag read.  `step` names the source or loop it happened in.
NoEvent ==
    [ kind |-> "none", step |-> "none", chain |-> "none",
      batch |-> 0, pushed |-> 0, skipped |-> 0 ]

Event(kind, step) == [NoEvent EXCEPT !.kind = kind, !.step = step]

NoHist ==
    [ ret |-> [op |-> "none", tag |-> "None", val |-> 0, at |-> "none"],
      cycle |-> [tag |-> "None", val |-> 0, chain_i |-> 0, sofar |-> 0],
      ev |-> NoEvent,         \* what the task's last step met
      queued |-> 0,           \* newly queued, as reported, in this chain run
      chain_val |-> 0,        \* the count the last chain run returned
      chain_sum |-> 0,        \* sum of the counts the chain runs returned
      stats |-> [is_running |-> FALSE, wallet_queue_size |-> 0],
                              \* the DiscoveryStats get_discovery_stats returned
      steps |-> {},           \* the sources fetched by the chain run
      boosted_n |-> 0,        \* trader fetches of the boosted step under way
      boosted_fetches |-> 0,  \* get_all_boosted_tokens calls of the cycle
      boosted_seen |-> {},    \* boosted tokens trader-fetched in the cycle
      trending |-> "none",    \* outcome of the chain run's trending fetch
      exec_err |-> FALSE,     \* the chain run returned Err
      stopped |-> FALSE,      \* stop() was called during the call
      pending |-> FALSE ]     \* a stop() not yet seen by a flag check

Init ==
    /\ is_running = FALSE
    /\ \E sc \in Scenarios : config = sc.config /\ feed = sc.feed
    /\ task = [p \in Procs |-> IdleTask]
    /\ hist = [p \in Procs |-> NoHist]
    /\ last_op = "none"
    /\ io = NoCall


\* A step of task p leaves it with task record s.t and history s.h.
Becomes(p, s) ==
    /\ task' = [task EXCEPT ![p] = s.t]
    /\ hist' = [hist EXCEPT ![p] = s.h]
    /\ last_op' = "run"

\* The history a step of the task starts from.
Quiet(h) == [h EXCEPT !.ev = NoEvent]

\* The task has read the flag: a stop() issued before the read is seen by it.
Seen(h) == [Quiet(h) EXCEPT !.pending = FALSE]

\* The chain run has awaited the fetch of source k.
Fetched(h, k) == [Quiet(h) EXCEPT !.steps = @ \cup {k}]

\* The step met event e.
Met(s, e) == [s EXCEPT !.h.ev = e]

\* ------------------------------------------------------------- start()
\* start() without its guard.
StartUnguarded(flag) == FALSE

\* if *is_running { return Ok(()) }
AlreadyRunning(flag) == flag

\* start(), up to the drop of the guard: one critical section.
StartCall(p) ==
    /\ task[p].pc = "idle"
    /\ last_op' = "start"
    /\ UNCHANGED <<config, feed, io>>
    /\ IF AlreadyRunning(is_running)
       THEN /\ is_running' = is_running
            /\ task' = task
            /\ hist' = [hist EXCEPT ![p] =
                 [NoHist EXCEPT !.ret =
                    [op |-> "start", tag |-> "Ok", val |-> 0, at |-> "already"]]]
       ELSE /\ is_running' = TRUE
            /\ task' = [task EXCEPT ![p] =
                 [IdleTask EXCEPT !.pc = "st_loop", !.call = "start"]]
            /\ hist' = [hist EXCEPT ![p] = NoHist]

\* start() returns Ok(()) from place `at` of its loop.
StartReturns(s, at) ==
    [ t |-> IdleTask,
      h |-> [s.h EXCEPT !.ret =
               [op |-> "start", tag |-> "Ok", val |-> 0, at |-> at]] ]

\* The check at the top of the loop; then the call of execute_discovery_cycle.
StartLoopCheck(p) ==
    /\ task[p].pc = "st_loop"
    /\ UNCHANGED <<is_running, config, feed, io>>
    /\ LET s == [t |-> task[p], h |-> Seen(hist[p])]
       IN  Becomes(p, IF ~is_running
                      THEN StartReturns(s, "loop")
                      ELSE [s EXCEPT !.t.pc = "cy_begin"])

\* One iteration of the interruptible sleep: interval.tick(), the flag check,
\* the elapsed check.  The first tick of a tokio interval completes at once.
StartSleepTick(p) ==
    /\ task[p].pc = "st_sleep"
    /\ UNCHANGED <<is_running, config, feed, io>>
    /\ LET s == [t |-> task[p], h |-> Seen(hist[p])]
       IN  Becomes(p, IF ~is_running
                      THEN StartReturns(s, "sleep")
                      ELSE IF s.t.ms >= CycleSleepMs
                           THEN [s EXCEPT !.t.pc = "st_loop", !.t.ms = 0]
                           ELSE [s EXCEPT !.t.ms = @ + SleepPollMs])

\* -------------------------------------------------------------- stop()
\* stop() that toggles the flag.
StopToggles(flag) == ~flag

\* *is_running = false
StopValue(flag) == FALSE

Stop ==
    /\ is_running' = StopValue(is_running)
    /\ UNCHANGED <<config, feed, task, io>>
    /\ hist' = [p \in Procs |->
                 IF task[p].call = "start"
                 THEN [hist[p] EXCEPT !.stopped = TRUE, !.pending = TRUE]
                 ELSE IF task[p].call = "cycle"
                      THEN [hist[p] EXCEPT !.stopped = TRUE]
                      ELSE hist[p]]
    /\ last_op' = "stop"

\* --------------------------------------------- execute_discovery_cycle()
\* A caller other than start() invokes execute_discovery_cycle().
DirectCall(p) ==
    /\ task[p].pc = "idle"
    /\ UNCHANGED <<is_running, config, feed, io>>
    /\ task' = [task EXCEPT ![p] =
                  [IdleTask EXCEPT !.pc = "cy_begin", !.call = "cycle"]]
    /\ hist' = [hist EXCEPT ![p] = NoHist]
    /\ last_op' = "cycle"

\* start() with `?` on the cycle's result.
AfterCyclePropagates(t, res) ==
    IF t.call = "start" /\ res.tag = "Ok"
    THEN [IdleTask EXCEPT !.pc = "st_sleep", !.call = "start"]
    ELSE IdleTask

\* The match on the cycle's result in start(): both arms log and fall through
\* to the sleep.  A direct caller gets the result.
AfterCycle(t, res) ==
    IF t.call = "start"
    THEN [IdleTask EXCEPT !.pc = "st_sleep", !.call = "start"]
    ELSE IdleTask

\* execute_discovery_cycle returns res.  A caller that returns in turn has the
\* result as its own; start() goes on, and of the cycle's history only the
\* kind of its result is kept.
ReturnFromCycle(s, res) ==
    LET t2 == AfterCycle(s.t, res)
    IN  [ t |-> t2,
          h |-> IF t2.call = "none"
                THEN [s.h EXCEPT
                        !.cycle = [tag |-> res.tag, val |-> res.val,
                                   chain_i |-> s.t.chain_i, sofar |-> s.t.total],
                        !.ret = [op |-> s.t.call, tag |-> res.tag,
                                 val |-> res.val, at |-> "cycle"],
                        !.queued = 0, !.chain_val = 0,
                        !.boosted_fetches = 0, !.boosted_seen = {}]
                ELSE [s.h EXCEPT
                        !.cycle = [NoHist.cycle EXCEPT !.tag = res.tag],
                        !.steps = {}, !.trending = "none",
                        !.queued = 0, !.chain_val = 0, !.chain_sum = 0,
                        !.boosted_fetches = 0, !.boosted_seen = {}] ]

\* The head of `for chain in &enabled_chains`: the call of the chain run for
\* chain s.t.chain_i, or the end of the loop.
EnterChain(s) ==
    IF s.t.chain_i <= Len(config.enabled_chains)
    THEN [ t |-> [s.t EXCEPT !.pc = "ch_trending", !.chain_total = 0],
           h |-> [s.h EXCEPT !.steps = {}, !.trending = "none",
                             !.exec_err = FALSE, !.queued = 0,
                             !.chain_val = 0] ]
    ELSE [s EXCEPT !.t.pc = "cy_end"]

\* Set is_running to true for this cycle; total_discovered_wallets = 0.
CycleBegin(p) ==
    /\ task[p].pc = "cy_begin"
    /\ is_running' = TRUE
    /\ UNCHANGED <<config, feed, io>>
    /\ Becomes(p, EnterChain(
         [ t |-> [task[p] EXCEPT !.total = 0, !.chain_i = 1],
           h |-> [Quiet(hist[p]) EXCEPT !.cycle = NoHist.cycle,
                                        !.chain_sum = 0] ]))

\* The chain loop with the error logged and the chain counted as zero.
OnChainResultLogged(t, res) ==
    [t EXCEPT !.total = @ + res.val, !.pc = "cy_check"]

\* total_discovered_wallets += execute_discovery_cycle_for_chain(chain).await?
OnChainResult(t, res) ==
    IF res.tag = "Err"
    THEN [t EXCEPT !.pc = "cy_err"]
    ELSE [t EXCEPT !.total = @ + res.val, !.pc = "cy_check"]

\* The locals of the chain run are dropped when it returns.
DropChainLocals(t) ==
    [t EXCEPT !.chain_total = 0, !.sub_total = 0, !.tokens = <<>>, !.i = 0,
              !.source = "none", !.batch = 0, !.top_tokens = <<>>, !.ms = 0]

\* execute_discovery_cycle_for_chain returns res to execute_discovery_cycle.
ReturnFromChain(s, res) ==
    LET t2 == OnChainResult(DropChainLocals(s.t), res)
        s2 == [t |-> t2, h |-> [s.h EXCEPT !.exec_err = (res.tag = "Err"),
                                           !.chain_val = res.val,
                                           !.chain_sum = @ + res.val]]
    IN  IF t2.pc = "cy_err" THEN ReturnFromCycle(s2, Err) ELSE s2

\* The chain loop without its `break`.
IgnoreChainStop(s) == EnterChain([s EXCEPT !.t.chain_i = @ + 1])

\* if !*is_running { break; } between two chains.
BreakChainLoop(s) == [s EXCEPT !.t.pc = "cy_end"]

\* Check if we should stop between chains.
CycleCheck(p) ==
    /\ task[p].pc = "cy_check"
    /\ UNCHANGED <<is_running, config, feed, io>>
    /\ LET s == [t |-> task[p], h |-> Seen(hist[p])]
       IN  Becomes(p, IF ~is_running
                      THEN BreakChainLoop(Met(s, Event("stop_at_check", "cycle")))
                      ELSE EnterChain([s EXCEPT !.t.chain_i = @ + 1]))

\* Reset is_running flag after cycle completes; Ok(total_discovered_wallets).
CycleEnd(p) ==
    /\ task[p].pc = "cy_end"
    /\ is_running' = FALSE
    /\ UNCHANGED <<config, feed, io>>
    /\ Becomes(p, ReturnFromCycle([t |-> task[p], h |-> Quiet(hist[p])],
                                  Ok(task[p].total)))

\* ------------------------------------------------ collaborator answers
\* The 24h volumes a trending token may carry.
Volumes == {10, 50}

RECURSIVE SeqsUpTo(_, _)
\* The sequences over S of length at most n.
SeqsUpTo(S, n) ==
    IF n = 0 THEN {<<>>}
    ELSE LET shorter == SeqsUpTo(S, n - 1)
         IN  shorter \cup {Append(q, x) : q \in shorter, x \in S}

\* BirdEyeClient::get_trending_tokens_paginated: an error, or a token list.
\* A token's address is its place in the list as the collaborator returned it.
TrendingAnswers ==
    {Err} \cup
    { [tag |-> "Ok",
       val |-> [k \in 1..Len(vs) |-> [address |-> k, volume_24h |-> vs[k]]]] :
      vs \in SeqsUpTo(Volumes, feed) }

\* get_top_traders_paginated followed by filter_top_traders: an error, or the
\* number of traders that pass the filter.
TraderAnswers == {Err} \cup {Ok(n) : n \in 0..2}

\* push_discovered_wallet_token_pairs_deduplicated on a batch of n records:
\* an error, or the number newly queued.
PushAnswers(n) == {Err} \cup {Ok(k) : k \in 0..n}

\* get_gainers_losers_paginated: an error, or the number of gainers.
GainerAnswers == {Err} \cup {Ok(n) : n \in 0..feed}

\* One list of DexScreener boosted tokens, each carrying its chain id: up to
\* one token of a chain that is not enabled, then tokens of an enabled chain.
\* A token's address is its place among the tokens of its chain in the list:
\* the two lists of an answer, and the lists of two answers, share the
\* tokens at the places both have.
BoostedLists ==
    { [k \in 1..(f + e) |->
         [chain_id |-> IF k <= f THEN ForeignChain ELSE ChainNames[1],
          token_address |-> IF k <= f THEN k ELSE k - f]] :
      f \in 0..1, e \in 0..(feed + 1) }

\* get_all_boosted_tokens: an error, or (latest_tokens, top_tokens).
BoostedAnswers ==
    {[tag |-> "Err", latest |-> <<>>, top |-> <<>>]} \cup
    {[tag |-> "Ok", latest |-> l, top |-> t] : l \in BoostedLists, t \in BoostedLists}

\* get_new_listing_tokens_comprehensive followed by filter_new_listing_tokens
\* (which applies new_listing_max_tokens): an error, or the filtered list.
ListingAnswers ==
    {Err} \cup
    { [tag |-> "Ok", val |-> [k \in 1..n |-> [address |-> k]]] : n \in 0..feed }

\* ------------------------------------------- get_trending_tokens_for_chain
RECURSIVE InsertBeforeTies(_, _)
\* tok placed in the descending list q before the tokens of its own volume.
InsertBeforeTies(q, tok) ==
    IF q = <<>> THEN <<tok>>
    ELSE IF Head(q).volume_24h > tok.volume_24h
         THEN <<Head(q)>> \o InsertBeforeTies(Tail(q), tok)
         ELSE <<tok>> \o q

RECURSIVE InsertByVolume(_, _)
\* tok placed in the descending list q after every token of volume >= its own.
InsertByVolume(q, tok) ==
    IF q = <<>> THEN <<tok>>
    ELSE IF Head(q).volume_24h >= tok.volume_24h
         THEN <<Head(q)>> \o InsertByVolume(Tail(q), tok)
         ELSE <<tok>> \o q

RECURSIVE SortByVolumeDesc(_)
\* tokens.sort_by(|a, b| b.volume_24h.partial_cmp(&a.volume_24h)...): stable.
SortByVolumeDesc(q) ==
    IF q = <<>> THEN <<>>
    ELSE InsertByVolume(SortByVolumeDesc(SubSeq(q, 1, Len(q) - 1)), q[Len(q)])

\* Apply max trending tokens limit (0 = unlimited).
LimitTrending(q) ==
    IF config.max_trending_tokens > 0 /\ Len(q) > config.max_trending_tokens
    THEN SubSeq(q, 1, config.max_trending_tokens)
    ELSE q

\* The Ok arm of the primary fetch.
PrimaryTokens(raw) == LimitTrending(SortByVolumeDesc(raw))

\* The Ok arm of the fallback fetch.
FallbackTokens(raw) == SortByVolumeDesc(raw)

\* -------------------------------------- execute_discovery_cycle_for_chain
\* Step 5: new listings, or the end of the chain run.
GoListing(s) ==
    IF config.new_listing_enabled
    THEN [s EXCEPT !.t.pc = "ch_listing"]
    ELSE ReturnFromChain(s, Ok(s.t.chain_total))

\* The boosted step left out: from the gainers straight to the new listings.
SkipBoosted(s) == GoListing(s)

\* Step 4: boosted tokens, if a DexScreener client exists.
GoBoosted(s) ==
    IF config.dexscreener
    THEN [s EXCEPT !.t.pc = "ch_boosted"]
    ELSE GoListing(s)

\* Step 3: gainers.  The trending loop's locals are no longer read.
GoGainers(s) ==
    [s EXCEPT !.t.pc = "ch_gainers", !.t.tokens = <<>>, !.t.i = 0,
              !.t.batch = 0, !.t.ms = 0]

\* if trending_tokens.is_empty() { return Ok(0); }, else the token loop.
OnTrendingTokens(s, tokens) ==
    IF tokens = <<>>
    THEN ReturnFromChain([s EXCEPT !.h.trending = "empty"], Ok(0))
    ELSE [s EXCEPT !.h.trending = "tokens", !.t.tokens = tokens, !.t.i = 1,
                   !.t.pc = "tk_check"]

\* The fetcher trying the primary fetch again when the fallback fails.
RetryTrending(s) == [s EXCEPT !.t.pc = "ch_trending"]

\* let trending_tokens = self.get_trending_tokens_for_chain(chain).await?
OnTrendingError(s) ==
    ReturnFromChain([s EXCEPT !.h.trending = "err"], Err)

\* The primary get_trending_tokens_paginated call.
TrendingFetch(p) ==
    /\ task[p].pc = "ch_trending"
    /\ UNCHANGED <<is_running, config, feed, io>>
    /\ \E ans \in TrendingAnswers :
         LET s == [t |-> task[p], h |-> Fetched(hist[p], "trending")]
         IN  Becomes(p, IF ans.tag = "Err"
                        THEN [Met(s, Event("primary_err", "trending"))
                                EXCEPT !.t.pc = "ch_fallback"]
                        ELSE OnTrendingTokens(s, PrimaryTokens(ans.val)))

\* The fallback get_trending_tokens_paginated call.
TrendingFallback(p) ==
    /\ task[p].pc = "ch_fallback"
    /\ UNCHANGED <<is_running, config, feed, io>>
    /\ \E ans \in TrendingAnswers :
         LET s == [t |-> task[p], h |-> Fetched(hist[p], "trending")]
         IN  Becomes(p, IF ans.tag = "Err"
                        THEN OnTrendingError(s)
                        ELSE OnTrendingTokens(Met(s, Event("fallback", "trending")),
                                              FallbackTokens(ans.val)))

\* ---------------------------------------------------- the per-token loops
\* The three loops (trending tokens, boosted tokens, new listings) have the
\* same shape; `loop` names the one in progress.
LoopPc(loop, stage) ==
    CASE loop = "trending" -> (CASE stage = "check" -> "tk_check"
                                 [] stage = "traders" -> "tk_traders"
                                 [] stage = "push" -> "tk_push"
                                 [] stage = "pushing" -> "tk_pushing"
                                 [] stage = "pace" -> "tk_pace")
      [] loop = "boosted" -> (CASE stage = "check" -> "bt_check"
                                [] stage = "traders" -> "bt_traders"
                                [] stage = "push" -> "bt_push"
                                [] stage = "pushing" -> "bt_pushing"
                                [] stage = "pace" -> "bt_pace")
      [] loop = "listing" -> (CASE stage = "check" -> "nl_check"
                                [] stage = "traders" -> "nl_traders"
                                [] stage = "push" -> "nl_push"
                                [] stage = "pushing" -> "nl_pushing"
                                [] stage = "pace" -> "nl_pace")

\* The loop adding the length of the batch instead of the reported count.
AddBatch(loop, s, n) ==
    IF loop = "trending"
    THEN [s EXCEPT !.t.chain_total = @ + s.t.batch]
    ELSE [s EXCEPT !.t.sub_total = @ + s.t.batch]

\* total_discovered_wallets += pushed_count, in the function the loop is in.
AddPushed(loop, s, n) ==
    IF loop = "trending"
    THEN [s EXCEPT !.t.chain_total = @ + n]
    ELSE [s EXCEPT !.t.sub_total = @ + n]

\* process_new_listing_tokens returns Ok(total_discovered_wallets); the chain
\* run adds it and returns.
ListingReturns(s) ==
    ReturnFromChain(s, Ok(s.t.chain_total + s.t.sub_total))

\* filter(|token| enabled_chains.contains(&token.chain_id))
FilterEnabled(q) ==
    SelectSeq(q, LAMBDA tok :
        \E k \in 1..Len(config.enabled_chains) :
            config.enabled_chains[k] = tok.chain_id)

\* processed_tokens.truncate(max_boosted_tokens)
LimitBoosted(q) ==
    IF Len(q) > config.max_boosted_tokens
    THEN SubSeq(q, 1, config.max_boosted_tokens)
    ELSE q

\* The boosted step of a chain run is over.  What the cycle has fetched of
\* boosted tokens is kept while the run of a later chain can fetch again.
BoostedStepOver(s) ==
    IF s.t.chain_i < Len(config.enabled_chains)
    THEN [s EXCEPT !.h.boosted_n = 0]
    ELSE [s EXCEPT !.h.boosted_n = 0, !.h.boosted_fetches = 0,
                   !.h.boosted_seen = {}]

\* The chain run after process_boosted_tokens(top_tokens, "top").
AfterTop(s) ==
    GoListing(BoostedStepOver(
              [s EXCEPT !.t.chain_total = @ + s.t.sub_total, !.t.sub_total = 0,
                        !.t.tokens = <<>>, !.t.i = 0, !.t.source = "none",
                        !.t.batch = 0, !.t.ms = 0, !.t.top_tokens = <<>>]))

\* if !top_tokens.is_empty() { process_boosted_tokens(&top_tokens, "top") }
StartTop(s) ==
    LET processed == LimitBoosted(FilterEnabled(s.t.top_tokens))
        s1 == [s EXCEPT !.t.source = "top", !.t.sub_total = 0, !.t.batch = 0,
                        !.t.ms = 0, !.t.top_tokens = <<>>]
    IN  IF s.t.top_tokens = <<>> \/ processed = <<>>
        THEN AfterTop(s1)
        ELSE [s1 EXCEPT !.t.tokens = processed, !.t.i = 1, !.t.pc = "bt_check"]

\* The chain run after process_boosted_tokens(latest_tokens, "latest").
AfterLatest(s) ==
    StartTop([s EXCEPT !.t.chain_total = @ + s.t.sub_total, !.t.sub_total = 0,
                       !.t.tokens = <<>>, !.t.i = 0])

\* if !latest_tokens.is_empty() { process_boosted_tokens(&latest_tokens, "latest") }
StartLatest(s, latest, top) ==
    LET processed == LimitBoosted(FilterEnabled(latest))
        s1 == [s EXCEPT !.t.source = "latest", !.t.sub_total = 0,
                        !.t.top_tokens = top]
    IN  IF latest = <<>> \/ processed = <<>>
        THEN AfterLatest(s1)
        ELSE [s1 EXCEPT !.t.tokens = processed, !.t.i = 1, !.t.pc = "bt_check"]

\* process_boosted_tokens returns Ok(total_discovered_wallets).
BoostedReturns(s) ==
    IF s.t.source = "latest" THEN AfterLatest(s) ELSE AfterTop(s)

\* The loop ends: by running out of tokens, or by `break` at the flag check.
LoopDone(loop, s) ==
    CASE loop = "trending" -> GoGainers(s)
      [] loop = "boosted" -> BoostedReturns(s)
      [] loop = "listing" -> ListingReturns(s)

\* The pacing delay without its flag check: the delay goes on.
PaceIgnoresStop(loop, s) ==
    IF s.t.ms + PaceCheckMs >= PaceDelayMs
    THEN [s EXCEPT !.t.pc = LoopPc(loop, "check"), !.t.i = @ + 1, !.t.ms = 0]
    ELSE [s EXCEPT !.t.ms = @ + PaceCheckMs]

\* `return Ok(total_discovered_wallets)` inside the pacing delay: it leaves
\* the function the loop is in.
PaceStopped(loop, s) ==
    CASE loop = "trending" -> ReturnFromChain(s, Ok(s.t.chain_total))
      [] loop = "boosted" -> BoostedReturns(s)
      [] loop = "listing" -> ListingReturns(s)

\* The loop with a pacing delay after every token, the last one too.
AfterTokenAlwaysPaces(loop, s) ==
    [s EXCEPT !.t.pc = LoopPc(loop, "pace"), !.t.ms = 0, !.t.batch = 0]

\* if i < tokens.len() - 1 { pacing delay }, then the next iteration.
AfterToken(loop, s) ==
    IF s.t.i < Len(s.t.tokens)
    THEN [s EXCEPT !.t.pc = LoopPc(loop, "pace"), !.t.ms = 0, !.t.batch = 0]
    ELSE LoopDone(loop, [s EXCEPT !.t.batch = 0])

\* Check if we should stop before processing each token.
LoopCheck(p, loop) ==
    /\ task[p].pc = LoopPc(loop, "check")
    /\ UNCHANGED <<is_running, config, feed, io>>
    /\ LET s == [t |-> task[p], h |-> Seen(hist[p])]
       IN  Becomes(p, IF ~is_running
                      THEN LoopDone(loop, Met(s, Event("stop_at_check", loop)))
                      ELSE [s EXCEPT !.t.pc = LoopPc(loop, "traders")])

\* self.get_top_traders_for_token(..).await has been called for token tok.
TraderFetched(loop, tok, h) ==
    IF loop = "boosted"
    THEN [h EXCEPT !.boosted_n = @ + 1,
                   !.boosted_seen = @ \cup {tok},
                   !.ev = IF tok \in h.boosted_seen
                          THEN Event("boosted_again", "boosted") ELSE @]
    ELSE h

\* filtered_traders.truncate(max_traders_per_token)
CapTraders(n) == Min(n, config.max_traders_per_token)

\* The loop leaving its function when the trader fetch or the publish fails.
TokenFailureReturns(loop, s) == PaceStopped(loop, s)

\* The Err arms of the matches on the trader fetch and on the publish: warn!,
\* then the rest of the iteration.
TokenFailed(loop, s) == AfterToken(loop, s)

\* get_top_traders_for_token, and the match on its result.
LoopTraders(p, loop) ==
    /\ task[p].pc = LoopPc(loop, "traders")
    /\ UNCHANGED <<is_running, config, feed, io>>
    /\ \E ans \in TraderAnswers :
         LET s == [t |-> task[p],
                   h |-> TraderFetched(loop, task[p].tokens[task[p].i],
                                       Quiet(hist[p]))]
         IN  Becomes(p, IF ans.tag = "Err"
                        THEN TokenFailed(loop, Met(s, Event("traders_err", loop)))
                        ELSE IF CapTraders(ans.val) > 0
                             THEN [s EXCEPT !.t.pc = LoopPc(loop, "push"),
                                            !.t.batch = CapTraders(ans.val)]
                             ELSE AfterToken(loop, s))

\* The task holds the guard of redis_client: it is awaiting the queue while
\* holding it, or (get_discovery_stats) is about to read the flag under it.
HoldsRedis(t) ==
    t.pc \in {"tk_pushing", "bt_pushing", "nl_pushing", "ga_pushing",
              "gs_query", "gs_flag"}

\* self.redis_client.lock().await completes when no task holds the guard.
RedisFree == \A q \in Procs : ~HoldsRedis(task[q])

\* The chain the records of a publish carry: the chain of the chain run
\* (trending, gainers), the token's chain_id (boosted), default_chain
\* (new listings).
PublishChain(step, t) ==
    CASE step = "boosted" -> t.tokens[t.i].chain_id
      [] step = "listing" -> config.default_chain
      [] OTHER -> config.enabled_chains[t.chain_i]

\* let skipped_count = wallet_token_pairs.len() - pushed_count
SkippedCount(batch, pushed) == batch - pushed

\* What the publisher logs about the queue's answer to a batch.
Published(step, t, ans) ==
    IF ans.tag = "Ok"
    THEN [ kind |-> "publish", step |-> step, chain |-> PublishChain(step, t),
           batch |-> t.batch, pushed |-> ans.val,
           skipped |-> SkippedCount(t.batch, ans.val) ]
    ELSE [ kind |-> "publish_err", step |-> step,
           chain |-> PublishChain(step, t),
           batch |-> t.batch, pushed |-> 0, skipped |-> 0 ]

\* The queue has answered: the event, and the reported count.
Answered(s, step, ans) ==
    [s EXCEPT !.h.ev = Published(step, s.t, ans), !.h.queued = @ + ans.val]

\* The publisher without a client taking the whole batch for queued.
PublishWithoutClientCounts(batch) == Ok(batch)

\* The else arm of `if let Some(ref redis_client) = *redis`: warn!, Ok(0).
PublishWithoutClient(batch) == Ok(0)

\* push_wallet_token_pairs_to_queue up to the queue call: the guard of
\* redis_client is taken; without a client the publisher returns Ok(0).
LoopPush(p, loop) ==
    /\ task[p].pc = LoopPc(loop, "push")
    /\ RedisFree
    /\ UNCHANGED <<is_running, config, feed, io>>
    /\ LET s == [t |-> task[p], h |-> Quiet(hist[p])]
       IN  Becomes(p, IF config.redis
                      THEN [s EXCEPT !.t.pc = LoopPc(loop, "pushing")]
                      ELSE AfterToken(loop, AddPushed(loop,
                               Met(s, Event("no_queue", loop)),
                               PublishWithoutClient(s.t.batch).val)))

\* The queue answers; the guard is dropped; the match on the result.
LoopPushed(p, loop) ==
    /\ task[p].pc = LoopPc(loop, "pushing")
    /\ UNCHANGED <<is_running, config, feed, io>>
    /\ \E ans \in PushAnswers(task[p].batch) :
         LET s == Answered([t |-> task[p], h |-> Quiet(hist[p])], loop, ans)
         IN  Becomes(p, IF ans.tag = "Err"
                        THEN TokenFailed(loop, s)
                        ELSE AfterToken(loop, AddPushed(loop, s, ans.val)))

\* One iteration of the pacing delay: sleep(check_interval), the flag check,
\* the elapsed check.
LoopPace(p, loop) ==
    /\ task[p].pc = LoopPc(loop, "pace")
    /\ UNCHANGED <<is_running, config, feed, io>>
    /\ LET s == [t |-> task[p], h |-> Seen(hist[p])]
       IN  Becomes(p, IF ~is_running
                      THEN PaceStopped(loop, Met(s, Event("stop_at_pace", loop)))
                      ELSE IF s.t.ms + PaceCheckMs >= PaceDelayMs
                           THEN [s EXCEPT !.t.pc = LoopPc(loop, "check"),
                                          !.t.i = @ + 1, !.t.ms = 0]
                           ELSE [s EXCEPT !.t.ms = @ + PaceCheckMs])

TrendingTokenCheck(p) == LoopCheck(p, "trending")
TrendingTokenTraders(p) == LoopTraders(p, "trending")
TrendingTokenPush(p) == LoopPush(p, "trending")
TrendingTokenPushed(p) == LoopPushed(p, "trending")
TrendingTokenPace(p) == LoopPace(p, "trending")

BoostedTokenCheck(p) == LoopCheck(p, "boosted")
BoostedTokenTraders(p) == LoopTraders(p, "boosted")
BoostedTokenPush(p) == LoopPush(p, "boosted")
BoostedTokenPushed(p) == LoopPushed(p, "boosted")
BoostedTokenPace(p) == LoopPace(p, "boosted")

ListingTokenCheck(p) == LoopCheck(p, "listing")
ListingTokenTraders(p) == LoopTraders(p, "listing")
ListingTokenPush(p) == LoopPush(p, "listing")
ListingTokenPushed(p) == LoopPushed(p, "listing")
ListingTokenPace(p) == LoopPace(p, "listing")

\* ------------------------------------------------- gainers, boosted, listing
\* The fetch of a source with `?` on its result.
FetchErrorRaised(step, s) == ReturnFromChain(s, Err)

\* The Err arm of the match on the fetch of gainers, boosted tokens or new
\* listings: warn!, then the next step of the chain run.
OnFetchError(step, s) ==
    CASE step = "gainers" -> GoBoosted(s)
      [] step = "boosted" -> GoListing(s)
      [] step = "listing" -> ReturnFromChain(s, Ok(s.t.chain_total))

\* get_top_gainers_for_chain, and the match on its result.
GainersFetch(p) ==
    /\ task[p].pc = "ch_gainers"
    /\ UNCHANGED <<is_running, config, feed, io>>
    /\ \E ans \in GainerAnswers :
         LET s == [t |-> task[p], h |-> Fetched(hist[p], "gainers")]
         IN  Becomes(p, IF ans.tag = "Err"
                        THEN OnFetchError("gainers",
                                 Met(s, Event("fetch_err", "gainers")))
                        ELSE IF ans.val > 0
                             THEN [s EXCEPT !.t.pc = "ga_push", !.t.batch = ans.val]
                             ELSE GoBoosted(s))

\* push_gainers_to_queue returning the length of the batch.
PushGainersBatch(batch, ans) == IF ans.tag = "Ok" THEN Ok(batch) ELSE Err

\* push_gainers_to_queue's result for the queue's answer: Ok(pushed_count),
\* or the error.
PushGainersResult(batch, ans) == IF ans.tag = "Ok" THEN Ok(ans.val) ELSE Err

\* push_gainers_to_queue up to the queue call: the guard of redis_client is
\* taken; without a client it returns Ok(0).
GainersPush(p) ==
    /\ task[p].pc = "ga_push"
    /\ RedisFree
    /\ UNCHANGED <<is_running, config, feed, io>>
    /\ LET s == [t |-> task[p], h |-> Quiet(hist[p])]
       IN  Becomes(p, IF config.redis
                      THEN [s EXCEPT !.t.pc = "ga_pushing"]
                      ELSE GoBoosted([Met(s, Event("no_queue", "gainers"))
                                        EXCEPT !.t.chain_total =
                                                 @ + PublishWithoutClient(s.t.batch).val,
                                               !.t.batch = 0]))

\* The queue answers; the guard is dropped; the chain run's match on the
\* result of push_gainers_to_queue.
GainersPushed(p) ==
    /\ task[p].pc = "ga_pushing"
    /\ UNCHANGED <<is_running, config, feed, io>>
    /\ \E ans \in PushAnswers(task[p].batch) :
         LET s == Answered([t |-> task[p], h |-> Quiet(hist[p])], "gainers", ans)
             res == PushGainersResult(task[p].batch, ans)
         IN  Becomes(p, GoBoosted([s EXCEPT !.t.chain_total = @ + res.val,
                                            !.t.batch = 0]))

\* get_all_boosted_tokens, and the match on its result.
BoostedFetch(p) ==
    /\ task[p].pc = "ch_boosted"
    /\ UNCHANGED <<is_running, config, feed, io>>
    /\ \E ans \in BoostedAnswers :
         LET s == [t |-> task[p],
                   h |-> [Fetched(hist[p], "boosted")
                            EXCEPT !.boosted_fetches = @ + 1]]
         IN  Becomes(p, IF ans.tag = "Err"
                        THEN OnFetchError("boosted", BoostedStepOver(
                                 Met(s, Event("fetch_err", "boosted"))))
                        ELSE StartLatest(s, ans.latest, ans.top))

\* get_new_listing_tokens_for_chain, and the match on its result.
ListingFetch(p) ==
    /\ task[p].pc = "ch_listing"
    /\ UNCHANGED <<is_running, config, feed, io>>
    /\ \E ans \in ListingAnswers :
         LET s == [t |-> task[p], h |-> Fetched(hist[p], "listing")]
         IN  Becomes(p, IF ans.tag = "Err"
                        THEN OnFetchError("listing",
                                 Met(s, Event("fetch_err", "listing")))
                        ELSE IF ans.val # <<>>
                             THEN [s EXCEPT !.t.tokens = ans.val, !.t.i = 1,
                                            !.t.sub_total = 0, !.t.pc = "nl_check"]
                             ELSE ReturnFromChain(s, Ok(s.t.chain_total)))

\* -------------------------------------------------- get_discovery_stats()
\* get_wallet_queue_size: an error, or the depth of the queue.
DepthAnswers == {Err} \cup {Ok(n) : n \in 0..1}

\* The depth query with its error taken for a queue of one record.
DepthUnchecked(ans) == IF ans.tag = "Ok" THEN ans.val ELSE 1

\* get_wallet_queue_size().await.unwrap_or(0)
DepthOrZero(ans) == IF ans.tag = "Ok" THEN ans.val ELSE 0

\* A caller invokes get_discovery_stats(): the first await is the guard of
\* redis_client.
StatsCall(p) ==
    /\ task[p].pc = "idle"
    /\ UNCHANGED <<is_running, config, feed, io>>
    /\ task' = [task EXCEPT ![p] =
                  [IdleTask EXCEPT !.pc = "gs_lock", !.call = "stats"]]
    /\ hist' = [hist EXCEPT ![p] = NoHist]
    /\ last_op' = "stats"

\* The guard of redis_client is taken: with a client the depth is queried
\* under it, without one the depth is 0.
StatsLock(p) ==
    /\ task[p].pc = "gs_lock"
    /\ RedisFree
    /\ UNCHANGED <<is_running, config, feed, io>>
    /\ LET s == [t |-> task[p], h |-> Quiet(hist[p])]
       IN  Becomes(p, IF config.redis
                      THEN [s EXCEPT !.t.pc = "gs_query"]
                      ELSE [Met(s, Event("no_queue", "stats"))
                              EXCEPT !.t.pc = "gs_flag", !.t.queue_size = 0])

\* The queue answers the depth query.
StatsQueried(p) ==
    /\ task[p].pc = "gs_query"
    /\ UNCHANGED <<is_running, config, feed, io>>
    /\ \E ans \in DepthAnswers :
         LET s == [t |-> task[p], h |-> Quiet(hist[p])]
             s1 == IF ans.tag = "Err" THEN Met(s, Event("depth_err", "stats"))
                   ELSE s
         IN  Becomes(p, [s1 EXCEPT !.t.pc = "gs_flag",
                                   !.t.queue_size = DepthOrZero(ans)])

\* is_running: *self.is_running.lock().await; both guards are dropped and
\* Ok(DiscoveryStats { .. }) is returned.
StatsReadFlag(p) ==
    /\ task[p].pc = "gs_flag"
    /\ UNCHANGED <<is_running, config, feed, io>>
    /\ Becomes(p, [ t |-> IdleTask,
                    h |-> [Quiet(hist[p]) EXCEPT
                             !.ret = [op |-> "stats", tag |-> "Ok",
                                      val |-> task[p].queue_size, at |-> "stats"],
                             !.stats = [is_running |-> is_running,
                                        wallet_queue_size |-> task[p].queue_size]] ])

\* The steps of a get_discovery_stats() call of task p.
StatsRun(p) == StatsLock(p) \/ StatsQueried(p) \/ StatsReadFlag(p)

\* ------------------------------------------------------ specifications
\* The steps of the code task p is in.
Run(p) ==
    \/ StartLoopCheck(p)
    \/ StartSleepTick(p)
    \/ CycleBegin(p)
    \/ CycleCheck(p)
    \/ CycleEnd(p)
    \/ TrendingFetch(p)
    \/ TrendingFallback(p)
    \/ TrendingTokenCheck(p)
    \/ TrendingTokenTraders(p)
    \/ TrendingTokenPush(p)
    \/ TrendingTokenPushed(p)
    \/ TrendingTokenPace(p)
    \/ GainersFetch(p)
    \/ GainersPush(p)
    \/ GainersPushed(p)
    \/ BoostedFetch(p)
    \/ BoostedTokenCheck(p)
    \/ BoostedTokenTraders(p)
    \/ BoostedTokenPush(p)
    \/ BoostedTokenPushed(p)
    \/ BoostedTokenPace(p)
    \/ ListingFetch(p)
    \/ ListingTokenCheck(p)
    \/ ListingTokenTraders(p)
    \/ ListingTokenPush(p)
    \/ ListingTokenPushed(p)
    \/ ListingTokenPace(p)

\* An entry point is invoked by task p.
Invoke(p) == StartCall(p) \/ DirectCall(p)

\* A second caller invokes start() while the flag is set.
SecondStart == is_running /\ StartCall("aux")

\* One caller of the entry points, a second caller of start() while the
\* orchestrator is running, and stop() from anywhere at any time.
Next == Stop \/ Invoke("main") \/ Run("main") \/ SecondStart

Spec == Init /\ [][Next]_vars

\* The runtime polls a task that can take a step: timers fire and every
\* collaborator call returns.  Nothing obliges a caller to invoke anything.
FairSpec == Spec /\ WF_vars(Run("main"))

\* A caller of get_discovery_stats() next to the caller of start(), stop() and
\* execute_discovery_cycle(): one chain, every source enabled, with a Redis
\* client or without, sources that return at most one token.
StatsInit ==
    /\ is_running = FALSE
    /\ config \in {c \in Configs(1) : /\ c.dexscreener
                                      /\ c.new_listing_enabled
                                      /\ c.max_trending_tokens = 0}
    /\ feed = 1
    /\ task = [p \in Procs |-> IdleTask]
    /\ hist = [p \in Procs |-> NoHist]
    /\ last_op = "none"
    /\ io = NoCall

StatsNext ==
    Stop \/ Invoke("main") \/ Run("main") \/ StatsCall("aux") \/ StatsRun("aux")

\* Ready tasks are polled and collaborator calls return; the tokio mutex
\* queues its waiters, so a task waiting for the guard of redis_client gets
\* it once it is free often enough.
StatsSpec ==
    /\ StatsInit /\ [][StatsNext]_vars
    /\ WF_vars(Run("main"))
    /\ WF_vars(StatsQueried("aux") \/ StatsReadFlag("aux"))
    /\ SF_vars(StatsLock("aux"))

\* ------------------------------------------ functions called on their own
\* The parts of the orchestrator that compute a list from a list, each run
\* on its own on arguments drawn from small sets: the conversion done by the
\* two publishers, the trader fetcher after the filter, and the Ok arm of
\* the primary trending fetch.

\* The members of sequence q.
Range(q) == {q[k] : k \in 1..Len(q)}

\* dex_client::TopTrader, the fields the orchestrator reads.
TraderPool ==
    { [owner |-> "w1", volume |-> 10, trade |-> 1],
      [owner |-> "w2", volume |-> 50, trade |-> 2],
      [owner |-> "w3", volume |-> 10, trade |-> 3] }

\* dex_client::GainerLoser, the fields the orchestrator reads.
GainerPool ==
    { [address |-> "g1", volume |-> 10, trade_count |-> 1],
      [address |-> "g2", volume |-> 50, trade_count |-> 2],
      [address |-> "g3", volume |-> 10, trade_count |-> 3] }

\* The token a batch of traders belongs to.
TokenPool == { [address |-> "mintA", symbol |-> "AAA"],
               [address |-> "mintB", symbol |-> "BBB"] }

\* The timeframe labels a caller may pass to push_gainers_to_queue.
Timeframes == {"ALL_TIMEFRAMES", "24h"}

\* str::to_uppercase on the timeframe labels.
ToUppercase(tf) ==
    CASE tf = "ALL_TIMEFRAMES" -> "ALL_TIMEFRAMES"
      [] tf = "24h" -> "24H"

\* The conversion with the records in reverse order.
WalletTokenPairsReversed(traders, token, chain) ==
    [k \in 1..Len(traders) |->
       [ wallet_address |-> traders[Len(traders) + 1 - k].owner,
         chain |-> chain,
         token_address |-> token.address,
         token_symbol |-> token.symbol,
         trader_volume_usd |-> traders[Len(traders) + 1 - k].volume,
         trader_trades |-> traders[Len(traders) + 1 - k].trade ]]

\* traders.iter().map(|trader| DiscoveredWalletToken { .. }).collect()
\* (discovered_at, the time of the conversion, is left out).
WalletTokenPairs(traders, token, chain) ==
    [k \in 1..Len(traders) |->
       [ wallet_address |-> traders[k].owner,
         chain |-> chain,
         token_address |-> token.address,
         token_symbol |-> token.symbol,
         trader_volume_usd |-> traders[k].volume,
         trader_trades |-> traders[k].trade ]]

\* gainers.iter().map(|gainer| DiscoveredWalletToken { .. }).collect()
GainerPairs(gainers, timeframe, chain) ==
    [k \in 1..Len(gainers) |->
       [ wallet_address |-> gainers[k].address,
         chain |-> chain,
         token_address |-> "ALL_TOKENS",
         token_symbol |-> "GAINER_" \o ToUppercase(timeframe),
         trader_volume_usd |-> gainers[k].volume,
         trader_trades |-> gainers[k].trade_count ]]

\* What a publisher hands to the queue: nothing for an empty input or
\* without a client, else the converted batch.
HandedToQueue(records, pairs) ==
    IF records = <<>> \/ ~config.redis
    THEN [handed |-> FALSE, batch |-> <<>>]
    ELSE [handed |-> TRUE, batch |-> pairs]

\* push_wallet_token_pairs_to_queue up to the queue call.
PushWalletTokenPairs(traders, token, chain) ==
    HandedToQueue(traders, WalletTokenPairs(traders, token, chain))

\* push_gainers_to_queue up to the queue call.
PushGainers(gainers, timeframe, chain) ==
    HandedToQueue(gainers, GainerPairs(gainers, timeframe, chain))

\* The truncation keeping the last elements instead of the first.
KeepLastTraders(q) ==
    IF Len(q) > config.max_traders_per_token
    THEN SubSeq(q, Len(q) - config.max_traders_per_token + 1, Len(q))
    ELSE q

\* if filtered_traders.len() > max { filtered_traders.truncate(max) }
TruncateTraders(q) ==
    IF Len(q) > config.max_traders_per_token
    THEN SubSeq(q, 1, config.max_traders_per_token)
    ELSE q

\* if debug_mode && !filtered_traders.is_empty(): the traders that are
\* logged, the first three.
DebugSample(debug_mode, q) ==
    IF debug_mode /\ q # <<>> THEN SubSeq(q, 1, Min(3, Len(q))) ELSE <<>>

\* get_top_traders_for_token, given the result of get_top_traders_paginated
\* with filter_top_traders applied to it.
TopTradersForToken(answer, debug_mode) ==
    IF answer.tag = "Err"
    THEN [tag |-> "Err", val |-> <<>>, logged |-> <<>>]
    ELSE [tag |-> "Ok", val |-> TruncateTraders(answer.val),
          logged |-> DebugSample(debug_mode, TruncateTraders(answer.val))]

\* The trending tokens a fetch may return: distinct addresses, volumes that
\* may be equal.
TrendingPool ==
    { [address |-> a, volume_24h |-> v] : a \in {"A", "B", "C"}, v \in Volumes }

\* The token lists without a repeated address.
DistinctTokenLists ==
    { q \in SeqsUpTo(TrendingPool, MaxRecords) :
        \A i, j \in 1..Len(q) : i # j => q[i].address # q[j].address }

\* The orders in which a collaborator may return the tokens of list q.
FetchOrders(q) ==
    { r \in [1..Len(q) -> Range(q)] : Range(r) = Range(q) }

RECURSIVE TrendingCount(_, _)
\* The count the token loop adds for the list `tokens` with the flag true
\* throughout, the publish for a token's traders queueing yield[address].
TrendingCount(tokens, yield) ==
    IF tokens = <<>> THEN 0
    ELSE yield[Head(tokens).address] + TrendingCount(Tail(tokens), yield)

\* The mint of wrapped SOL.
SolMint == "So11111111111111111111111111111111111111112"

\* An f64: a finite value, or one that is not (NaN, an infinity).
F64(n) == [finite |-> TRUE, val |-> n]
NaN == [finite |-> FALSE, val |-> 0]

\* Decimal::from_f64_retain(x).unwrap_or_default(): zero for a value that
\* is not finite.
DecimalFromF64(x) == IF x.finite THEN x.val ELSE 0

\* Option<f64>
NoPrice == [some |-> FALSE, val |-> NaN]
SomePrice(x) == [some |-> TRUE, val |-> x]

\* Decimal / Decimal: rust_decimal panics on a zero divisor.
Divide(a, b) ==
    IF b = 0 THEN [ok |-> FALSE, val |-> 0] ELSE [ok |-> TRUE, val |-> a \div b]

\* A Decimal computed without a division.
Plain(v) == [ok |-> TRUE, val |-> v]

\* Which token is sold (in) and which is bought (out).
SwapSides(tx) ==
    IF tx.quote.type_swap = "from"
    THEN [ token_in |-> tx.quote.address,
           amount_in |-> DecimalFromF64(tx.quote.ui_amount),
           token_out |-> tx.base.address,
           amount_out |-> DecimalFromF64(tx.base.ui_amount) ]
    ELSE [ token_in |-> tx.base.address,
           amount_in |-> DecimalFromF64(tx.base.ui_amount),
           token_out |-> tx.quote.address,
           amount_out |-> DecimalFromF64(tx.quote.ui_amount) ]

\* let sol_equivalent = ...
SolEquivalent(tx, s) ==
    IF s.token_in = SolMint THEN s.amount_in
    ELSE IF s.token_out = SolMint THEN s.amount_out
    ELSE DecimalFromF64(tx.quote_price) * s.amount_in

\* let price_per_token = ...
PricePerToken(tx, s) ==
    IF s.token_out = SolMint
    THEN IF s.amount_out > 0 THEN Divide(s.amount_out, s.amount_in) ELSE Plain(0)
    ELSE IF s.token_in = SolMint
    THEN IF tx.base.price.some
         THEN Plain(DecimalFromF64(tx.base.price.val))
         ELSE IF s.amount_in > 0
              THEN Divide(s.amount_out, s.amount_in) ELSE Plain(0)
    ELSE IF tx.base.price.some
         THEN Plain(DecimalFromF64(tx.base.price.val)) ELSE Plain(0)

\* The ProcessedSwap pushed for tx (tx_hash, timestamp and source, which are
\* copied from tx, are left out).
SwapOf(tx) ==
    LET s == SwapSides(tx)
    IN  [ token_in |-> s.token_in, token_out |-> s.token_out,
          amount_in |-> s.amount_in, amount_out |-> s.amount_out,
          sol_equivalent |-> SolEquivalent(tx, s),
          price_per_token |-> PricePerToken(tx, s).val ]

\* ProcessedSwap::from_birdeye_transactions: Ok(processed_swaps), or the
\* panic of a division.
FromBirdeyeTransactions(txs) ==
    IF \E k \in 1..Len(txs) : ~PricePerToken(txs[k], SwapSides(txs[k])).ok
    THEN [tag |-> "Panic", val |-> <<>>]
    ELSE [tag |-> "Ok", val |-> [k \in 1..Len(txs) |-> SwapOf(txs[k])]]

\* dex_client::GeneralTraderTransaction, the fields the function reads: the
\* quote side is SOL or a token, the base side a token; a quote amount of
\* two or not finite, a base amount of zero or two; a base price or none.
TxPool ==
    { [ quote |-> [type_swap |-> ty, address |-> qa, ui_amount |-> qx],
        base |-> [address |-> "mintB", ui_amount |-> bx, price |-> pr],
        quote_price |-> F64(1) ] :
      ty \in {"from", "to"}, qa \in {SolMint, "mintQ"},
      qx \in {F64(2), NaN}, bx \in {F64(0), F64(2)},
      pr \in {NoPrice, SomePrice(F64(3))} }

\* The calls explored.
FnCalls ==
    { [NoCall EXCEPT !.fn = "swaps", !.arg = [transactions |-> q]] :
        q \in SeqsUpTo(TxPool, MaxSwaps) }
    \cup
    { [NoCall EXCEPT !.fn = "pairs",
                     !.arg = [traders |-> q, token |-> tok, chain |-> c]] :
        q \in SeqsUpTo(TraderPool, MaxRecords), tok \in TokenPool,
        c \in {ChainNames[1]} }
    \cup
    { [NoCall EXCEPT !.fn = "gainers",
                     !.arg = [gainers |-> q, timeframe |-> tf, chain |-> c]] :
        q \in SeqsUpTo(GainerPool, MaxRecords), tf \in Timeframes,
        c \in {ChainNames[1]} }
    \cup
    { [NoCall EXCEPT !.fn = "traders",
                     !.arg = [answer |-> a, debug_mode |-> d]] :
        a \in {Err} \cup {Ok(q) : q \in SeqsUpTo(TraderPool, MaxRecords)},
        d \in BOOLEAN }
    \cup
    UNION { { [NoCall EXCEPT !.fn = "trending",
                             !.arg = [raw |-> q, other |-> r, yield |-> y]] :
                r \in FetchOrders(q), y \in [{"A", "B", "C"} -> {0, 1}] } :
            q \in DistinctTokenLists }

\* One call, under one configuration: a Redis client or none, one or two
\* traders per token, trending tokens unlimited or limited to one.
\* from_birdeye_transactions reads no configuration.
FnInit ==
    /\ is_running = FALSE
    /\ \E c \in Configs(1), n \in 1..2 :
         /\ c.dexscreener /\ c.new_listing_enabled
         /\ config = [c EXCEPT !.max_traders_per_token = n]
    /\ feed = 0
    /\ task = [p \in Procs |-> IdleTask]
    /\ hist = [p \in Procs |-> NoHist]
    /\ last_op = "none"
    /\ io \in FnCalls
    /\ io.fn = "swaps" => FullConfig(config) /\ config.max_traders_per_token = 1

\* The call returns `out`.
Returns(out) ==
    /\ ~io.done
    /\ io' = [io EXCEPT !.done = TRUE, !.out = out]
    /\ UNCHANGED <<is_running, config, feed, task, hist, last_op>>

PublishPairsCall ==
    /\ io.fn = "pairs"
    /\ Returns(PushWalletTokenPairs(io.arg.traders, io.arg.token, io.arg.chain))

PublishGainersCall ==
    /\ io.fn = "gainers"
    /\ Returns(PushGainers(io.arg.gainers, io.arg.timeframe, io.arg.chain))

TopTradersCall ==
    /\ io.fn = "traders"
    /\ Returns(TopTradersForToken(io.arg.answer, io.arg.debug_mode))

\* The Ok arm of the primary fetch, on a list and on the same tokens in
\* another order.
TrendingCall ==
    /\ io.fn = "trending"
    /\ Returns([first |-> PrimaryTokens(io.arg.raw),
                second |-> PrimaryTokens(io.arg.other)])

SwapsCall ==
    /\ io.fn = "swaps"
    /\ Returns(FromBirdeyeTransactions(io.arg.transactions))

FnNext ==
    \/ PublishPairsCall
    \/ PublishGainersCall
    \/ TopTradersCall
    \/ TrendingCall
    \/ SwapsCall

FnSpec == FnInit /\ [][FnNext]_vars

\* ---------------------------------------------------------------- claims
\* Nothing has been invoked yet.
Pristine == \A p \in Procs : task[p] = IdleTask /\ hist[p] = NoHist

\* The history of a start() call that returned at once.
AlreadyRunningHist ==
    [NoHist EXCEPT !.ret = [op |-> "start", tag |-> "Ok", val |-> 0,
                            at |-> "already"]]

\* The chain run of task p has returned to execute_discovery_cycle.
ChainReturned(p) == task[p].pc \in {"cy_check", "cy_end", "idle", "st_sleep"}

\* C1: a start() call returns from its loop only after stop() was called
\* during it.
C1_LoopExitsOnlyAfterStop ==
    \A p \in Procs :
        (hist[p].ret.op = "start" /\ hist[p].ret.at \in {"loop", "sleep"})
            => hist[p].stopped

\* C2: from a stop() issued while a start() loop is active until the loop's
\* next read of the flag, the flag is false.
C2_StopNeverLost ==
    \A p \in Procs : hist[p].pending => ~is_running

\* C3: once stop() has been called during a start() call, the call
\* eventually returns.
C3_StopEventuallyReturns ==
    (task["main"].call = "start" /\ hist["main"].stopped)
        ~> (task["main"].call # "start")

\* C4: a start() call made while the flag is set returns Ok at once: the flag
\* stays set, no task enters anything, and the caller's history is that of a
\* call that ran no cycle and fetched nothing.
C4_StartIdempotent ==
    [][(is_running /\ last_op' = "start")
          => /\ is_running'
             /\ task' = task
             /\ \A p \in Procs :
                    hist'[p] # hist[p] => hist'[p] = AlreadyRunningHist]_vars

\* C4: the second caller's start() returned at once while the first caller
\* is inside its start() loop.
C4_Witness ==
    /\ last_op = "start"
    /\ is_running
    /\ task["main"].call = "start"
    /\ hist["aux"] = AlreadyRunningHist

\* C5: when a direct execute_discovery_cycle() call returns and no stop() was
\* called during it, the flag is false.
C5_DirectCycleLeavesIdle ==
    [][\A p \in Procs :
          (task[p].call = "cycle" /\ task'[p].call = "none"
             /\ ~hist'[p].stopped) => ~is_running']_vars

\* C6: stop() on an orchestrator on which nothing was ever invoked changes
\* nothing: the flag stays false and no task enters anything.
C6_IdleStopNoOp ==
    [][(Pristine /\ ~is_running /\ last_op' = "stop")
          => (~is_running' /\ task' = task /\ hist' = hist)]_vars

\* C6: stop() was the last step and nothing was ever invoked.
C6_Witness == Pristine /\ ~is_running /\ last_op = "stop"

\* C7: start() never returns an error, and the step in which a cycle fails
\* inside start() leaves the task at the beginning of the inter-cycle sleep.
C7_StartAbsorbsCycleError ==
    [][\A p \in Procs :
          /\ hist'[p].ret.op = "start" => hist'[p].ret.tag = "Ok"
          /\ (task[p].call = "start" /\ hist[p].cycle.tag # "Err"
                /\ hist'[p].cycle.tag = "Err")
               => (task'[p].call = "start" /\ task'[p].pc = "st_sleep"
                     /\ task'[p].ms = 0)]_vars

\* C7: after a failed cycle and the whole sleep, start() is calling the next
\* cycle.
C7_Witness ==
    \E p \in Procs :
        /\ task[p].call = "start"
        /\ task[p].pc = "cy_begin"
        /\ hist[p].cycle.tag = "Err"

\* C8: the step in which a chain run returns an error ends the cycle: the
\* task is out of execute_discovery_cycle, whose result is the error and
\* carries no count.
C8_ChainErrorAbortsCycle ==
    [][\A p \in Procs :
          (hist'[p].exec_err /\ ~hist[p].exec_err)
             => /\ task'[p].pc \in {"idle", "st_sleep"}
                /\ hist'[p].cycle.tag = "Err"
                /\ hist'[p].cycle.val = 0
                /\ task[p].call = "cycle"
                      => hist'[p].ret = [op |-> "cycle", tag |-> "Err",
                                         val |-> 0, at |-> "cycle"]]_vars

\* C8: a direct cycle returned the error of its second chain after the first
\* chain had counted wallets.
C8_Witness ==
    \E p \in Procs :
        /\ hist[p].ret.op = "cycle"
        /\ hist[p].ret.tag = "Err"
        /\ hist[p].exec_err
        /\ hist[p].cycle.chain_i = 2
        /\ hist[p].cycle.sofar > 0

\* C9: no chain run returns an error.
C9_ChainRunNeverErr ==
    \A p \in Procs : ~hist[p].exec_err

\* C10: a chain run whose trending fetch returned an empty list has fetched
\* the gainers by the time it returns.
C10_EmptyTrendingSkipsOnlyLoop ==
    \A p \in Procs :
        (hist[p].trending = "empty" /\ ChainReturned(p))
            => "gainers" \in hist[p].steps

\* The position of a chain run after a step that went through: the next
\* source that is enabled, or back in execute_discovery_cycle.
PcAfter(step) ==
    IF step = "gainers" /\ config.dexscreener THEN "ch_boosted"
    ELSE IF step \in {"gainers", "boosted"} /\ config.new_listing_enabled
         THEN "ch_listing"
         ELSE "cy_check"

\* C11: the step in which the fetch of gainers, boosted tokens or new
\* listings fails raises nothing and adds nothing: the chain run is at the
\* next enabled source with its count unchanged, or has returned Ok with the
\* count it had, which is what the queue reported for its publishes.
C11_FetchFailureIsolated ==
    [][\A p \in Procs :
          (task'[p] # task[p] /\ hist'[p].ev.kind = "fetch_err")
             => /\ ~hist'[p].exec_err
                /\ hist'[p].cycle.tag # "Err"
                /\ task'[p].pc = PcAfter(hist'[p].ev.step)
                /\ task'[p].pc # "cy_check"
                      => task'[p].chain_total = task[p].chain_total
                /\ task'[p].pc = "cy_check"
                      => /\ hist'[p].chain_val = task[p].chain_total
                         /\ hist'[p].chain_val = hist'[p].queued]_vars

\* C11: the boosted fetch failed after trending and gainers had counted
\* wallets, and the chain run is about to fetch the new listings.
C11_Witness ==
    \E p \in Procs :
        /\ hist[p].ev = Event("fetch_err", "boosted")
        /\ task[p].pc = "ch_listing"
        /\ task[p].chain_total > 1

\* C12: a chain run returns what the queue reported for its publishes, and
\* execute_discovery_cycle returns the sum of what its chain runs returned.
C12_CountsAddUp ==
    \A p \in Procs :
        /\ task[p].pc = "cy_check" => hist[p].chain_val = hist[p].queued
        /\ task[p].pc \in {"cy_check", "cy_end"}
              => task[p].total = hist[p].chain_sum
        /\ (hist[p].ret.op = "cycle" /\ hist[p].ret.tag = "Ok")
              => hist[p].ret.val = hist[p].chain_sum

\* C12: a direct cycle over two chains returned a count of several wallets.
C12_Witness ==
    \E p \in Procs :
        /\ hist[p].ret.op = "cycle"
        /\ hist[p].ret.tag = "Ok"
        /\ hist[p].ret.val > 2
        /\ hist[p].cycle.chain_i = 3

\* C13: the records of every publish carry a chain of enabled_chains.
C13_PublishedChainEnabled ==
    \A p \in Procs :
        hist[p].ev.kind \in {"publish", "publish_err"}
            => \E k \in 1..Len(config.enabled_chains) :
                   config.enabled_chains[k] = hist[p].ev.chain

\* The positions of a per-token loop.
LoopPcs(loop) ==
    {LoopPc(loop, stage) :
       stage \in {"check", "traders", "push", "pushing", "pace"}}

C15_StatsAlwaysReturns ==
    /\ [][\A p \in Procs :
            /\ (task'[p] # task[p]
                   /\ (task[p].call = "stats" \/ task'[p].call = "stats"))
                  => is_running' = is_running
            /\ (task[p].pc # "gs_flag" /\ task'[p].pc = "gs_flag"
                   /\ hist'[p].ev.kind \in {"no_queue", "depth_err"})
                  => task'[p].queue_size = 0
            /\ (task[p].pc = "gs_flag" /\ task'[p].pc = "idle")
                  => /\ hist'[p].ret.tag = "Ok"
                     /\ hist'[p].stats.is_running = is_running
                     /\ hist'[p].stats.wallet_queue_size
                           = task[p].queue_size]_vars
    /\ (task["aux"].call = "stats") ~> (task["aux"].call = "none")

\* C15: get_discovery_stats() has returned the flag as true and a depth of 0
\* while the other caller is waiting for the queue to answer a publish.
C15_Witness ==
    /\ hist["aux"].ret.op = "stats"
    /\ hist["aux"].stats = [is_running |-> TRUE, wallet_queue_size |-> 0]
    /\ last_op = "run"
    /\ task["aux"].pc = "idle"
    /\ task["main"].pc = "tk_pushing"

\* The count of the chain run of a task: what it has added up so far, or
\* what it returned if it has just returned.
ChainCount(t, h) ==
    IF t.pc = "cy_check" THEN h.chain_val ELSE t.chain_total + t.sub_total

\* C16: when the queue answers the publish of the gainers, the chain run's
\* count grows by exactly the newly-queued count the queue reported (by
\* nothing if it failed), and the logged skipped count is the length of the
\* batch minus that count.
C16_GainersQueuedCount ==
    [][\A p \in Procs :
          (task[p].pc = "ga_pushing" /\ task'[p] # task[p])
             => /\ hist'[p].ev.step = "gainers"
                /\ hist'[p].ev.batch = task[p].batch
                /\ ChainCount(task'[p], hist'[p])
                      = ChainCount(task[p], hist[p]) + hist'[p].ev.pushed
                /\ hist'[p].ev.kind = "publish"
                      => hist'[p].ev.pushed + hist'[p].ev.skipped
                           = task[p].batch
                /\ hist'[p].ev.kind = "publish_err"
                      => hist'[p].ev.pushed = 0]_vars

\* C16: of a batch of two gainers the queue reported one as new and one was
\* skipped.
C16_Witness ==
    \E p \in Procs :
        /\ hist[p].ev.kind = "publish"
        /\ hist[p].ev.step = "gainers"
        /\ hist[p].ev.batch = 2
        /\ hist[p].ev.pushed = 1
        /\ hist[p].ev.skipped = 1
        /\ hist[p].queued = ChainCount(task[p], hist[p])

\* C17: the token list of the trending loop, which is walked from its first
\* token to its last, is in non-increasing order of volume_24h, and tokens
\* of equal volume are in the order of the fetcher's answer.
C17_TrendingSortedStable ==
    \A p \in Procs :
        task[p].pc \in LoopPcs("trending")
            => \A a, b \in 1..Len(task[p].tokens) :
                  a < b =>
                    /\ task[p].tokens[a].volume_24h >= task[p].tokens[b].volume_24h
                    /\ task[p].tokens[a].volume_24h = task[p].tokens[b].volume_24h
                          => task[p].tokens[a].address < task[p].tokens[b].address

\* C17: the fallback fetch answered with volumes [10, 50] and the loop is
\* about to process the second token of the answer first.
C17_Witness ==
    \E p \in Procs :
        /\ hist[p].ev = Event("fallback", "trending")
        /\ task[p].pc = "tk_check"
        /\ task[p].i = 1
        /\ task[p].tokens = << [address |-> 2, volume_24h |-> 50],
                               [address |-> 1, volume_24h |-> 10] >>

\* C18: when a flag read of the trending loop has seen a stop, at the check
\* before a token or in the pacing delay, the chain run has returned.
C18_TrendingStopReturns ==
    \A p \in Procs :
        (hist[p].ev.step = "trending"
           /\ hist[p].ev.kind \in {"stop_at_check", "stop_at_pace"})
            => ChainReturned(p)

\* C19: the step that reads the flag as false between two chains enters no
\* further chain and keeps the total, and the step after it returns Ok with
\* that total.
C19_StopBetweenChains ==
    [][\A p \in Procs :
          /\ (task[p].pc = "cy_check" /\ ~is_running /\ task'[p] # task[p])
                => /\ task'[p].pc = "cy_end"
                   /\ task'[p].total = task[p].total
                   /\ task'[p].chain_i = task[p].chain_i
          /\ (task[p].pc = "cy_end" /\ task'[p] # task[p])
                => /\ hist'[p].cycle.tag = "Ok"
                   /\ task'[p].pc \in {"idle", "st_sleep"}
                   /\ task[p].call = "cycle"
                         => hist'[p].ret = [op |-> "cycle", tag |-> "Ok",
                                            val |-> task[p].total,
                                            at |-> "cycle"]]_vars

\* C19: a direct cycle over two chains was stopped and has returned the
\* count of the first chain without entering the second.
C19_Witness ==
    \E p \in Procs :
        /\ Len(config.enabled_chains) = 2
        /\ hist[p].stopped
        /\ hist[p].ret.op = "cycle"
        /\ hist[p].ret.tag = "Ok"
        /\ hist[p].ret.val > 0
        /\ hist[p].cycle.chain_i = 1

\* C20: the step in which the trader fetch or the publish for a token of a
\* per-token loop fails raises nothing and adds nothing to the count; if
\* the token is not the last, the loop is in the pacing delay before the
\* next token, and if it is the last, the loop is over.
C20_TokenFailureSkipsToken ==
    [][\A p \in Procs :
          (task'[p] # task[p]
             /\ hist'[p].ev.kind \in {"traders_err", "publish_err"}
             /\ hist'[p].ev.step \in {"trending", "boosted", "listing"})
             => /\ ~hist'[p].exec_err
                /\ hist'[p].cycle.tag # "Err"
                /\ ChainCount(task'[p], hist'[p]) = ChainCount(task[p], hist[p])
                /\ task[p].i < Len(task[p].tokens)
                      => /\ task'[p].pc = LoopPc(hist'[p].ev.step, "pace")
                         /\ task'[p].i = task[p].i
                         /\ task'[p].tokens = task[p].tokens
                /\ task[p].i = Len(task[p].tokens)
                      => \/ task'[p].pc \notin LoopPcs(hist'[p].ev.step)
                         \/ task'[p].source # task[p].source]_vars

\* C20: the trader fetch for the first of two trending tokens failed and the
\* loop is in the pacing delay before the second.
C20_Witness ==
    \E p \in Procs :
        /\ hist[p].ev = Event("traders_err", "trending")
        /\ task[p].pc = "tk_pace"
        /\ task[p].i = 1
        /\ Len(task[p].tokens) = 2
        /\ is_running

\* The positions at which a task awaits the queue's answer to a publish.
PushingPcs == {"tk_pushing", "bt_pushing", "nl_pushing", "ga_pushing"}

\* C21: a publish without a queue client, or one the queue fails, raises
\* nothing and adds nothing to the chain run's count, and the chain run
\* goes on: in a per-token loop with the pacing delay before the next token
\* or the end of the loop, after the gainers with the next enabled step.
\* Without a client no task ever awaits the queue.
C21_QueueFailureIsSoft ==
    /\ [](~config.redis => \A p \in Procs : task[p].pc \notin PushingPcs)
    /\ [][\A p \in Procs :
            (task'[p] # task[p]
               /\ hist'[p].ev.kind \in {"no_queue", "publish_err"}
               /\ hist'[p].ev.step # "stats")
               => /\ ~hist'[p].exec_err
                  /\ hist'[p].cycle.tag # "Err"
                  /\ ChainCount(task'[p], hist'[p])
                        = ChainCount(task[p], hist[p])
                  /\ hist'[p].queued = hist[p].queued
                  /\ hist'[p].ev.step = "gainers"
                        => task'[p].pc = PcAfter("gainers")
                  /\ (hist'[p].ev.step # "gainers"
                         /\ task[p].i < Len(task[p].tokens))
                        => /\ task'[p].pc = LoopPc(hist'[p].ev.step, "pace")
                           /\ task'[p].i = task[p].i
                  /\ (hist'[p].ev.step # "gainers"
                         /\ task[p].i = Len(task[p].tokens))
                        => \/ task'[p].pc \notin LoopPcs(hist'[p].ev.step)
                           \/ task'[p].source # task[p].source]_vars

\* C21: without a queue client the publish of a trader of the first of two
\* trending tokens returned zero and the loop is in the pacing delay before
\* the second.
C21_Witness ==
    \E p \in Procs :
        /\ ~config.redis
        /\ hist[p].ev = Event("no_queue", "trending")
        /\ task[p].pc = "tk_pace"
        /\ task[p].i = 1
        /\ task[p].chain_total = 0

\* The sources a chain run has fetched from when it is at position pc: the
\* steps of execute_discovery_cycle_for_chain in the order of the code.
StepsBefore(pc) ==
    IF pc = "ch_trending" THEN {}
    ELSE IF pc \in {"ch_fallback", "ch_gainers"} \cup LoopPcs("trending")
    THEN {"trending"}
    ELSE IF pc \in {"ga_push", "ga_pushing", "ch_boosted"}
    THEN {"trending", "gainers"}
    ELSE IF pc \in LoopPcs("boosted")
    THEN {"trending", "gainers", "boosted"}
    ELSE {"trending", "gainers"}
           \cup (IF config.dexscreener THEN {"boosted"} ELSE {})
           \cup (IF pc \in LoopPcs("listing") THEN {"listing"} ELSE {})

\* The positions inside execute_discovery_cycle_for_chain.
ChainPcs ==
    {"ch_trending", "ch_fallback", "ch_gainers", "ga_push", "ga_pushing",
     "ch_boosted", "ch_listing"}
      \cup LoopPcs("trending") \cup LoopPcs("boosted") \cup LoopPcs("listing")

\* C22: a chain run fetches its sources in the order trending, gainers,
\* boosted, new listings: at every position it has fetched exactly the
\* enabled sources before that position.  A cycle takes the chains in the
\* order of enabled_chains: the chain index starts at one, moves by one and
\* only between two chain runs, and every chain run starts with nothing
\* fetched; within a chain run the set of fetched sources only grows.
C22_StepsInOrder ==
    /\ [](\A p \in Procs :
            task[p].pc \in ChainPcs
              => /\ hist[p].steps = StepsBefore(task[p].pc)
                 /\ task[p].chain_i \in 1..Len(config.enabled_chains))
    /\ [][\A p \in Procs :
            /\ task'[p].chain_i # task[p].chain_i
                 => \/ task[p].pc = "cy_begin" /\ task'[p].chain_i = 1
                    \/ /\ task[p].pc = "cy_check"
                       /\ task'[p].chain_i = task[p].chain_i + 1
                       /\ task'[p].pc \in {"ch_trending", "cy_end"}
                    \/ task'[p].pc \notin ChainPcs \cup {"cy_check", "cy_end"}
            /\ (task'[p].pc = "ch_trending" /\ task[p].pc # "ch_trending")
                 => task[p].pc \in {"cy_begin", "cy_check"}
            /\ (task[p].pc \in ChainPcs /\ task'[p].pc \in ChainPcs)
                 => /\ hist[p].steps \subseteq hist'[p].steps
                    /\ task'[p].chain_i = task[p].chain_i]_vars

\* C22: the second of two enabled chains is in its new-listing loop, after
\* its trending and gainers steps, the first chain's run being over.
C22_Witness ==
    \E p \in Procs :
        /\ Len(config.enabled_chains) = 2
        /\ task[p].chain_i = 2
        /\ task[p].pc = "nl_traders"
        /\ hist[p].steps = {"trending", "gainers", "listing"}
        /\ hist[p].chain_sum > 0

\* C23: in the boosted step of a chain run every token whose traders are
\* fetched has its chain id in enabled_chains, and the tokens trader-fetched
\* over the latest and the top list together are at most max_boosted_tokens.
C23_BoostedCapCombined ==
    \A p \in Procs :
        task[p].pc \in LoopPcs("boosted")
          => /\ \E k \in 1..Len(config.enabled_chains) :
                  config.enabled_chains[k] = task[p].tokens[task[p].i].chain_id
             /\ hist[p].boosted_n <= config.max_boosted_tokens

\* The loop each loop position belongs to.
LoopAt ==
    [pc \in LoopPcs("trending") \cup LoopPcs("boosted") \cup LoopPcs("listing")
       |-> IF pc \in LoopPcs("trending") THEN "trending"
           ELSE IF pc \in LoopPcs("boosted") THEN "boosted" ELSE "listing"]

\* The loop task t is in, if any.
LoopOf(t) == IF t.pc \in DOMAIN LoopAt THEN LoopAt[t.pc] ELSE "none"

\* The step of task p ends the iteration for its token: the trader fetch
\* failed or found nobody, or the publish returned.
EndsIteration(p) ==
    /\ LoopOf(task[p]) # "none"
    /\ task[p].pc \in {LoopPc(LoopOf(task[p]), "traders"),
                       LoopPc(LoopOf(task[p]), "push"),
                       LoopPc(LoopOf(task[p]), "pushing")}
    /\ task'[p] # task[p]
    /\ task'[p].pc \notin {LoopPc(LoopOf(task[p]), "push"),
                           LoopPc(LoopOf(task[p]), "pushing")}

\* C25: a pacing delay begins exactly when the iteration of a token that is
\* not the last of its list ends; after the last token the loop is over
\* with no delay.  With the flag true a delay runs its PaceDelayMs and then
\* the next token is taken.  So n tokens processed to completion with the
\* flag true have n - 1 delays between them, and one token has none.
C25_DelayBetweenTokens ==
    [][\A p \in Procs :
         LET loop == LoopOf(task[p])
         IN  task'[p] # task[p] =>
             /\ (EndsIteration(p) /\ task[p].i < Len(task[p].tokens))
                  => /\ task'[p].pc = LoopPc(loop, "pace")
                     /\ task'[p].ms = 0
                     /\ task'[p].i = task[p].i
             /\ (EndsIteration(p) /\ task[p].i = Len(task[p].tokens))
                  => \/ LoopOf(task'[p]) # loop
                     \/ /\ task'[p].source # task[p].source
                        /\ task'[p].pc = LoopPc(loop, "check")
                        /\ task'[p].i = 1
             /\ (LoopOf(task'[p]) # "none"
                   /\ task'[p].pc = LoopPc(LoopOf(task'[p]), "pace")
                   /\ task[p].pc # task'[p].pc)
                  => EndsIteration(p) /\ task[p].i < Len(task[p].tokens)
             /\ (loop # "none" /\ task[p].pc = LoopPc(loop, "pace")
                   /\ is_running /\ task'[p] # task[p])
                  => IF task[p].ms + PaceCheckMs >= PaceDelayMs
                     THEN /\ task'[p].pc = LoopPc(loop, "check")
                          /\ task'[p].i = task[p].i + 1
                     ELSE /\ task'[p].pc = task[p].pc
                          /\ task'[p].i = task[p].i
                          /\ task'[p].ms = task[p].ms + PaceCheckMs]_vars

\* C25: the second and last of two trending tokens is about to be fetched
\* after the one delay of the loop, the flag never having been false.
C25_Witness ==
    \E p \in Procs :
        /\ task[p].pc = "tk_traders"
        /\ task[p].i = 2
        /\ Len(task[p].tokens) = 2
        /\ ~hist[p].stopped
        /\ is_running

\* C27: the fallback fetch is made exactly when the primary fetch failed,
\* and nothing is fetched a third time: the step after the fallback is out
\* of the fetcher.  A fallback that answers is a success (the tokens are
\* looped over, or an empty list returns Ok(0)); the chain run gets an error
\* from the fetcher only in the step in which the fallback fails too.
C27_TwoTrendingAttempts ==
    [][\A p \in Procs :
         task'[p] # task[p] =>
           /\ task[p].pc = "ch_trending"
                => /\ (task'[p].pc = "ch_fallback")
                        <=> (hist'[p].ev.kind = "primary_err")
                   /\ hist'[p].trending # "err"
                   /\ ~hist'[p].exec_err
                   /\ task'[p].pc # "ch_trending"
           /\ task'[p].pc = "ch_fallback" => task[p].pc = "ch_trending"
           /\ task[p].pc = "ch_fallback"
                => /\ task'[p].pc \notin {"ch_trending", "ch_fallback"}
                   /\ (hist'[p].ev.kind = "fallback")
                        <=> (hist'[p].trending \in {"tokens", "empty"})
                   /\ (hist'[p].ev.kind # "fallback") <=> hist'[p].exec_err
                   /\ hist'[p].trending = "tokens"
                        => task'[p].pc = "tk_check" /\ task'[p].tokens # <<>>
           /\ (hist'[p].exec_err /\ ~hist[p].exec_err)
                => task[p].pc = "ch_fallback"]_vars

\* C27: the primary fetch failed and the fallback answered one token, which
\* the token loop is about to process.
C27_Witness ==
    \E p \in Procs :
        /\ hist[p].ev = Event("fallback", "trending")
        /\ hist[p].trending = "tokens"
        /\ ~hist[p].exec_err
        /\ task[p].pc = "tk_check"
        /\ Len(task[p].tokens) = 1

\* C30: with max_trending_tokens greater than zero the token loop of a chain
\* run has at most max_trending_tokens tokens, sorted by volume, whichever
\* fetch the list came from.
C30_TrendingLimitBothPaths ==
    \A p \in Procs :
        (task[p].pc \in LoopPcs("trending") /\ config.max_trending_tokens > 0)
          => /\ Len(task[p].tokens) <= config.max_trending_tokens
             /\ \A k \in 1..(Len(task[p].tokens) - 1) :
                  task[p].tokens[k].volume_24h >= task[p].tokens[k + 1].volume_24h

\* C24: a publisher hands a batch to the queue exactly when its input is
\* not empty and a client exists, and the batch has one observation per
\* input record, in input order.  For traders the observation carries the
\* trader's owner, volume and trade count, the caller's chain and the
\* token's address and symbol; for gainers it carries the gainer's address,
\* volume and trade count, the caller's chain, the token address ALL_TOKENS
\* and the symbol GAINER_ followed by the timeframe in upper case.
C24_BatchMirrorsInput ==
    /\ (io.fn = "pairs" /\ io.done)
         => /\ io.out.handed <=> (io.arg.traders # <<>> /\ config.redis)
            /\ io.out.handed
                 => /\ Len(io.out.batch) = Len(io.arg.traders)
                    /\ \A k \in 1..Len(io.arg.traders) :
                         /\ io.out.batch[k].wallet_address = io.arg.traders[k].owner
                         /\ io.out.batch[k].trader_volume_usd = io.arg.traders[k].volume
                         /\ io.out.batch[k].trader_trades = io.arg.traders[k].trade
                         /\ io.out.batch[k].chain = io.arg.chain
                         /\ io.out.batch[k].token_address = io.arg.token.address
                         /\ io.out.batch[k].token_symbol = io.arg.token.symbol
    /\ (io.fn = "gainers" /\ io.done)
         => /\ io.out.handed <=> (io.arg.gainers # <<>> /\ config.redis)
            /\ io.out.handed
                 => /\ Len(io.out.batch) = Len(io.arg.gainers)
                    /\ \A k \in 1..Len(io.arg.gainers) :
                         /\ io.out.batch[k].wallet_address = io.arg.gainers[k].address
                         /\ io.out.batch[k].trader_volume_usd = io.arg.gainers[k].volume
                         /\ io.out.batch[k].trader_trades = io.arg.gainers[k].trade_count
                         /\ io.out.batch[k].chain = io.arg.chain
                         /\ io.out.batch[k].token_address = "ALL_TOKENS"
                         /\ io.out.batch[k].token_symbol
                              \in {"GAINER_ALL_TIMEFRAMES", "GAINER_24H"}
                         /\ io.arg.timeframe = "ALL_TIMEFRAMES"
                              => io.out.batch[k].token_symbol = "GAINER_ALL_TIMEFRAMES"

\* C24: three traders, two of them with the same volume, were converted and
\* handed to the queue.
C24_Witness ==
    /\ io.fn = "pairs" /\ io.done /\ io.out.handed
    /\ Len(io.arg.traders) = 3
    /\ io.arg.traders[1].owner = "w3"
    /\ io.arg.traders[2].owner = "w1"
    /\ io.arg.traders[3].owner = "w3"

\* C26: given the filter's output q, the trader fetcher returns Ok with the
\* first max_traders_per_token elements of q in q's order, all of q when it
\* is no longer than that, whether or not debug_mode logs a sample of them;
\* the length is the count the token loop publishes.  A failed fetch is
\* returned as Err with no list.
C26_FirstTradersKept ==
    (io.fn = "traders" /\ io.done)
      => /\ io.arg.answer.tag = "Err"
              => io.out.tag = "Err" /\ io.out.val = <<>>
         /\ io.arg.answer.tag = "Ok"
              => /\ io.out.tag = "Ok"
                 /\ Len(io.out.val)
                      = Min(Len(io.arg.answer.val), config.max_traders_per_token)
                 /\ \A k \in 1..Len(io.out.val) :
                      io.out.val[k] = io.arg.answer.val[k]
                 /\ Len(io.out.val) = CapTraders(Len(io.arg.answer.val))
                 /\ io.out.logged # <<>>
                      <=> (io.arg.debug_mode /\ io.out.val # <<>>)

\* C26: with debug_mode on, three traders passed the filter and the first
\* two of them were returned.
C26_Witness ==
    /\ io.fn = "traders" /\ io.done /\ io.arg.debug_mode
    /\ config.max_traders_per_token = 2
    /\ io.arg.answer.tag = "Ok"
    /\ Len(io.arg.answer.val) = 3
    /\ io.arg.answer.val[1].owner = "w2"
    /\ io.arg.answer.val[3].owner = "w1"
    /\ Len(io.out.val) = 2

\* C28: for two orders of the same fetched tokens the primary fetch hands
\* the token loop the same set of tokens, and the loop's count is the same.
C28_FetchOrderIrrelevant ==
    (io.fn = "trending" /\ io.done)
      => /\ Range(io.out.first) = Range(io.out.second)
         /\ TrendingCount(io.out.first, io.arg.yield)
              = TrendingCount(io.out.second, io.arg.yield)

\* Two callers of start() on one orchestrator: one enabled chain, no
\* DexScreener client, no new listings, and a trending collaborator that
\* fails or finds nothing, so that a cycle is the trending fetch alone.
ConcInit ==
    /\ is_running = FALSE
    /\ config \in {c \in Configs(1) : /\ ~c.dexscreener
                                      /\ ~c.new_listing_enabled
                                      /\ c.redis
                                      /\ c.max_trending_tokens = 0}
    /\ feed = 0
    /\ task = [p \in Procs |-> IdleTask]
    /\ hist = [p \in Procs |-> NoHist]
    /\ last_op = "none"
    /\ io = NoCall

\* The steps of a start() call with such a collaborator.
ConcRun(p) ==
    \/ StartLoopCheck(p)
    \/ StartSleepTick(p)
    \/ CycleBegin(p)
    \/ TrendingFetch(p)
    \/ TrendingFallback(p)
    \/ CycleCheck(p)
    \/ CycleEnd(p)

ConcNext == \E p \in Procs : StartCall(p) \/ ConcRun(p)

ConcSpec == ConcInit /\ [][ConcNext]_vars

\* C29: at most one task is inside the loop of start().
C29_OneLoopAtMost ==
    ~(task["main"].call = "start" /\ task["aux"].call = "start")

\* A direct or started cycle over two enabled chains with every source
\* enabled, sources returning at most one token (a boosted list at most two
\* of an enabled chain).
BoostInit ==
    /\ is_running = FALSE
    /\ config \in {c \in Configs(2) : FullConfig(c)}
    /\ feed = 1
    /\ task = [p \in Procs |-> IdleTask]
    /\ hist = [p \in Procs |-> NoHist]
    /\ last_op = "none"
    /\ io = NoCall

\* One caller, and no stop().
BoostNext == Invoke("main") \/ Run("main")

BoostSpec == BoostInit /\ [][BoostNext]_vars

\* C31: in one cycle get_all_boosted_tokens is called once at most, and no
\* step fetches the traders of a boosted token whose traders were fetched
\* before in the cycle.
C31_BoostedOncePerCycle ==
    \A p \in Procs :
        /\ hist[p].boosted_fetches <= 1
        /\ hist[p].ev.kind # "boosted_again"

\* C32: from_birdeye_transactions returns Ok with one swap per transaction,
\* in the order of the input, for every input: no division by a zero
\* amount_in ends the call.
C32_NoZeroDivision ==
    (io.fn = "swaps" /\ io.done)
      => /\ io.out.tag = "Ok"
         /\ Len(io.out.val) = Len(io.arg.transactions)
         /\ \A k \in 1..Len(io.arg.transactions) :
              LET s == SwapSides(io.arg.transactions[k])
              IN  /\ io.out.val[k].token_in = s.token_in
                  /\ io.out.val[k].token_out = s.token_out
                  /\ io.out.val[k].amount_in = s.amount_in
                  /\ io.out.val[k].amount_out = s.amount_out

==========================================================================
